---- MODULE Spec2Model ----
(***************************************************************************)
(* Top-K user aggregation pipeline: the deduplicating aggregator           *)
(* (services/aggregator/main.go), its Kafka consumer group, the shared     *)
(* Redis Bloom dedup store and the Cassandra counter table.                *)
(*                                                                         *)
(* Each aggregator process runs three goroutines: the consume loop, the    *)
(* periodic flush goroutine ("tick") and the shutdown handler ("shut").    *)
(* Every call that leaves the process (Redis, Cassandra, Kafka commit) is  *)
(* one step, so that the other goroutines and a crash interleave with it.  *)
(***************************************************************************)
EXTENDS Integers, Sequences, FiniteSets, TLC

(* ------------------------------ bounds --------------------------------- *)
\* records published to the log, over all partitions
MaxLog == 2
\* aggregator process crashes
MaxCrash == 1
\* partition reassignments away from a live owner
MaxRebalance == 1
\* failed BF.ADD calls (dedup store unreachable)
MaxDedupErr == 1
\* Bloom false positives
MaxFalsePos == 1
\* expiries of a day's Bloom filter
MaxExpire == 1
\* failed counter updates
MaxStoreFail == 1
\* shutdown signals delivered
MaxSignal == 1
\* ticks a row may stay ENQUEUED or RUNNING before it counts as stale
StaleTicks == 2
\* ticks between a completion and the next run of a row
PeriodTicks == 2
\* seconds of wall-clock time the crawl worker is followed for
MaxClock == 2
\* retries the job queue grants a failed or abandoned crawl task
MaxRetry == 1
\* events one crawl fetches (the simulated provider returns 10)
EventsPerCrawl == 1
\* requests the API server is sent
MaxRequests == 2
\* the pending-delta count at which a flush is due (the design's batch size
\* threshold)
FlushThreshold == 1
\* failed writes to the raw event store
MaxWriteFail == 1

(* ------------------------- program constants --------------------------- *)
bloomTTLDays == 8
DaySecs == 86400

Instances == {"i1", "i2"}
Partitions == {0, 1}
Flushers == {"tick", "shut"}
NoOwner == "none"
Bad == "bad"

\* local time zone offsets (seconds east of UTC) of the deployment
TZOffsets == {0, 3600}

EventIds == {"e1", "e2", "e3"}

\* the (user, provider) pair whose crawl is followed and the `since` of its
\* first job
CrawlUser == "u1"
CrawlProvider == "spotify"
CrawlSince == DaySecs + 100
\* the wall-clock time at which the first job is enqueued (since + 24 h)
StartTime == CrawlSince + DaySecs

\* fmt.Sprintf("%s-%s-%d-%d", userID, provider, now, i)
EventID(userID, provider, now, i) ==
    userID \o "-" \o provider \o "-" \o ToString(now) \o "-" \o ToString(i)

\* fmt.Sprintf("song-%d", i%100)
SongID(i) == "song-" \o ToString(i % 100)

\* fetchListenHistory(userID, provider, since) called at time `now`
fetchListenHistory(userID, provider, since, now) ==
    [n \in 1..EventsPerCrawl |->
        [EventID |-> EventID(userID, provider, now, n - 1),
         UserID |-> userID,
         SongID |-> SongID(n - 1),
         Provider |-> provider,
         ListenedAt |-> since + (n - 1) * 3600]]

\* the events a crawl of the first job can publish within MaxClock seconds
CrawlEvents ==
    {fetchListenHistory(CrawlUser, CrawlProvider, CrawlSince, now)[n] :
        now \in StartTime..(StartTime + MaxClock), n \in 1..EventsPerCrawl}

CrawlIds == {ev.EventID : ev \in CrawlEvents}

AllIds == EventIds \cup CrawlIds

\* ListenEvent: a given event_id always carries the same user, song, timestamp
Event(id) ==
    CASE id \in CrawlIds ->
            LET ev == CHOOSE e \in CrawlEvents : e.EventID = id
            IN  [user |-> ev.UserID, song |-> ev.SongID, listenedAt |-> ev.ListenedAt]
      [] id = "e1" -> [user |-> "u1", song |-> "a", listenedAt |-> DaySecs + 100]
      [] id = "e2" -> [user |-> "u1", song |-> "a", listenedAt |-> DaySecs + 200]
      [] id = "e3" -> [user |-> "u2", song |-> "b", listenedAt |-> 2 * DaySecs - 100]

\* kafka.Hash balancer on the message key (user id)
PartitionOf(user) == IF user = "u1" THEN 0 ELSE 1

\* time.Unix(ts, 0).Format("2006-01-02"): the calendar day in the process's
\* local zone, represented by its day number since the epoch
FormatDay(ts, off) == (ts + off) \div DaySecs

\* the time at which the API server is queried, and the user and songs whose
\* counters it is queried about
ApiNow == 2 * DaySecs + 500
ApiUser == "u1"
ApiSongs == {"a", "b", "c"}
ApiDays == {FormatDay(ApiNow, 0), FormatDay(ApiNow, 0) - 1}

Days == {FormatDay(Event(e).listenedAt, z) : e \in AllIds, z \in TZOffsets}
            \cup ApiDays

AggregateKey(user, day, song) == [user |-> user, day |-> day, song |-> song]

ApiKeys == {AggregateKey(ApiUser, d, sg) : d \in ApiDays, sg \in ApiSongs}

Keys == {AggregateKey(Event(e).user, FormatDay(Event(e).listenedAt, z), Event(e).song) :
            e \in AllIds, z \in TZOffsets}
            \cup ApiKeys

Msgs == [p : Partitions, off : 0..(MaxLog + 1)]
ZeroMsg == [p |-> 0, off |-> 0]

EmptyCounts == [k \in {} |-> 0]

\* --- crawl scheduler: the user_crawl_schedule table and its job queue ---
VARIABLES
    rowStatus,   \* row -> "IDLE", "ENQUEUED" or "RUNNING"
    rowAge,      \* row -> ticks since updated_at, saturating above StaleTicks
    rowWait,     \* row -> ticks until next_run_at <= now (0: due)
    cand,        \* scheduler -> rows its running poll() selected, not yet tried
    jobq,        \* rows with an ingestion job in the ready queue
    winners,     \* history: row -> schedulers that claimed it since it was IDLE
    reclaimed    \* history: rows whose last return to IDLE was by reconcile()

\* --- crawl worker: the job queue "crawl" and the running handlers ---
VARIABLES
    task,        \* task id -> [st, since, retried, pc]; st is "none" (not
                 \* created), "pending", "active", "retry", "scheduled"
                 \* (ProcessAt tomorrow), "archived" or "done"; pc is the
                 \* position of the running handler
    hnow,        \* task id -> time.Now() read by fetchListenHistory
    clk,         \* seconds elapsed since StartTime
    execs        \* history: [since, now] of the executions that published

\* --- API server: its Redis cache and the request being answered ---
VARIABLES
    cache,       \* cache key -> cached response body (absent: no entry)
    resp,        \* the response to the last request
    req,         \* the last request
    nreq,        \* requests answered so far
    calls        \* history: the backend calls made for the last request:
                 \*   get     outcome of the cache lookup ("none": not made)
                 \*   reads   days read from the counter table
                 \*   failed  the position in dayList of the read that
                 \*           failed (0: none)
                 \*   set     outcome of the cache write ("none": not made)

\* --- raw-event-processor: its consumer group and user_listen_history ---
VARIABLES
    rpos,        \* reader: partition -> next offset to fetch
    rcommitted,  \* consumer group raw-event-processor: partition -> offset
    rstore,      \* Cassandra user_listen_history: the records written
    rfails       \* history: number of failed writes

\* --- aggregator, event log, dedup store and counter store ---
VARIABLES
    tz,          \* local zone offset of the deployment
    log,         \* Kafka topic user.listen.raw: partition -> sequence of records
    committed,   \* consumer group: partition -> committed offset
    owner,       \* consumer group: partition -> assigned instance
    store,       \* Cassandra user_daily_topk: key -> listen_count
    bloom,       \* Redis: day -> ids the day's filter reports present
    bloomExists, \* Redis: days whose filter key exists
    bloomTTL,    \* Redis: days whose filter key carries an expiry
    status,      \* process: "up", "down" (crashed), "stopped" (exited)
    cancelled,   \* ctx cancelled
    sig,         \* signal delivered to sigChan
    shutDone,    \* shutdown handler has run
    pos,         \* reader: partition -> next offset to fetch
    pc,          \* consume loop position
    cur,         \* msg being processed
    chk,         \* result of checkAndAddToBloom: "none", "new", "dup", "err"
    counts,      \* a.counts
    lastMsg,     \* a.lastMsg
    hasMsg,      \* a.hasMsg
    dedupCount,  \* a.dedupCount
    fpc,         \* flush position per goroutine: "idle", "write", "commit"
    fcounts,     \* flush local: counts
    fremain,     \* flush local: keys the range loop has not visited yet
    flast,       \* flush local: lastMsg
    fhas,        \* flush local: hasMsg
    logs,        \* log lines written, per kind
    accRecs,     \* history: records counted into a.counts
    frecs,       \* history: records counted into a flush's snapshot
    ffailed,     \* history: keys whose update failed in a running flush
    hist,        \* history, sets of records <<partition, offset>>:
                 \*   counted   counted after the dedup set reported the id new
                 \*   degraded  counted after a failed dedup check
                 \*   applied   their increment was added to the counter table
                 \*   replay    in a batch fully applied but not committed at a crash
                 \*   dropped   in memory only (not applied) at a crash
                 \*   stale     delivered before their day's dedup set expired
                 \* and flushed: the instances whose last flush ran to its end
                 \* with nothing accumulated since
    faults,      \* history: number of faults injected, per kind
    limit,       \* environment: how many faults of each kind may be injected
    feed         \* environment: the records the producers may publish

vars == <<tz, log, committed, owner, store, bloom, bloomExists, bloomTTL,
          status, cancelled, sig, shutDone, pos, pc, cur, chk, counts, lastMsg,
          hasMsg, dedupCount, fpc, fcounts, fremain, flast, fhas, logs,
          accRecs, frecs, ffailed, hist, faults, limit, feed,
          rowStatus, rowAge, rowWait, cand, jobq, winners, reclaimed,
          task, hnow, clk, execs, cache, resp, req, nreq, calls,
          rpos, rcommitted, rstore, rfails>>

kafkaVars == <<log, committed, owner>>
redisVars == <<bloom, bloomExists, bloomTTL>>
procVars  == <<status, cancelled, sig, shutDone>>
loopVars  == <<pos, pc, cur, chk>>
accVars   == <<counts, lastMsg, hasMsg, dedupCount, accRecs>>
flushVars == <<fpc, fcounts, fremain, flast, fhas, frecs, ffailed>>
schedVars == <<rowStatus, rowAge, rowWait, cand, jobq, winners, reclaimed>>
\* what no step of the aggregator or of the event log changes
crawlVars == <<task, hnow, clk, execs>>
apiVars   == <<cache, resp, req, nreq, calls>>
rawVars   == <<rpos, rcommitted, rstore, rfails>>
envVars   == <<tz, limit, feed, schedVars, crawlVars, apiVars, rawVars>>

(* ------------------------------ helpers -------------------------------- *)
RecordAt(m) == log[m.p][m.off + 1]

KeyOfId(id) ==
    AggregateKey(Event(id).user, FormatDay(Event(id).listenedAt, tz), Event(id).song)

KeyOfMsg(m) == KeyOfId(RecordAt(m))

DayOfMsg(m) == FormatDay(Event(RecordAt(m)).listenedAt, tz)

TotalLen == Len(log[0]) + Len(log[1])

(* --------------------------- crawl scheduler --------------------------- *)
Rows == {"r1", "r2"}
Schedulers == {"s1", "s2"}

\* the schedule table after onboarding: every pair IDLE and due
InitScheduler ==
    /\ rowStatus = [r \in Rows |-> "IDLE"]
    /\ rowAge = [r \in Rows |-> 0]
    /\ rowWait = [r \in Rows |-> 0]
    /\ cand = [s \in Schedulers |-> {}]
    /\ jobq = {}
    /\ winners = [r \in Rows |-> {}]
    /\ reclaimed = {}

(* ----------------------------- crawl queue ----------------------------- *)
\* one task per execution chain link: the first job and one per reschedule
TaskIds == 1..(MaxRetry + 2)

NoTask == [st |-> "none", since |-> 0, retried |-> 0, pc |-> "none"]

\* enqueue-test: one crawl job for the pair, since = now - 24 h, pending
InitCrawlQueue ==
    /\ task = [t \in TaskIds |->
                 IF t = 1 THEN [NoTask EXCEPT !.st = "pending", !.since = CrawlSince]
                 ELSE NoTask]
    /\ hnow = [t \in TaskIds |-> 0]
    /\ clk = 0
    /\ execs = {}

(* ------------------------------ API server ---------------------------- *)
NoBody == [user_id |-> "", days |-> 0, k |-> 0, results |-> <<>>, cached |-> FALSE]
NoResponse == [status |-> 0, xcache |-> "", body |-> NoBody]
NoRequest == [method |-> "", parts |-> <<>>, days |-> <<>>, k |-> <<>>]
NoCalls == [get |-> "none", reads |-> 0, failed |-> 0, set |-> "none"]

\* the server after start-up: empty cache, nothing answered
InitApiServer ==
    /\ cache = [c \in {} |-> NoBody]
    /\ resp = NoResponse
    /\ req = NoRequest
    /\ nreq = 0
    /\ calls = NoCalls

(* -------------------------- raw-event-processor ----------------------- *)
\* the processor after start-up: nothing fetched, committed or written
InitRawProcessor ==
    /\ rpos = [p \in Partitions |-> 0]
    /\ rcommitted = [p \in Partitions |-> 0]
    /\ rstore = {}
    /\ rfails = 0

\* The state after construction: empty topic, empty stores, the processes in
\* `up` started (main, line 268-322) and the partitions assigned to "i1".
InitRest(zones, up, lim, fd) ==
    /\ InitScheduler
    /\ InitCrawlQueue
    /\ InitApiServer
    /\ InitRawProcessor
    /\ tz \in zones
    /\ limit = lim
    /\ feed = fd
    /\ log = [p \in Partitions |-> <<>>]
    /\ committed = [p \in Partitions |-> 0]
    /\ owner = [p \in Partitions |-> "i1"]
    /\ bloom = [d \in Days |-> {}]
    /\ bloomExists = {}
    /\ bloomTTL = {}
    /\ status = [i \in Instances |-> IF i \in up THEN "up" ELSE "off"]
    /\ cancelled = [i \in Instances |-> FALSE]
    /\ sig = [i \in Instances |-> FALSE]
    /\ shutDone = [i \in Instances |-> FALSE]
    /\ pos = [i \in Instances |-> [p \in Partitions |-> 0]]
    /\ pc = [i \in Instances |-> "fetch"]
    /\ cur = [i \in Instances |-> ZeroMsg]
    /\ chk = [i \in Instances |-> "none"]
    /\ counts = [i \in Instances |-> EmptyCounts]
    /\ lastMsg = [i \in Instances |-> ZeroMsg]
    /\ hasMsg = [i \in Instances |-> FALSE]
    /\ dedupCount = [i \in Instances |-> 0]
    /\ fpc = [i \in Instances |-> [g \in Flushers |-> "idle"]]
    /\ fcounts = [i \in Instances |-> [g \in Flushers |-> EmptyCounts]]
    /\ fremain = [i \in Instances |-> [g \in Flushers |-> {}]]
    /\ flast = [i \in Instances |-> [g \in Flushers |-> ZeroMsg]]
    /\ fhas = [i \in Instances |-> [g \in Flushers |-> FALSE]]
    /\ logs = [unmarshal |-> 0, bloomFail |-> 0, counterErr |-> 0]
    /\ accRecs = [i \in Instances |-> {}]
    /\ frecs = [i \in Instances |-> [g \in Flushers |-> {}]]
    /\ ffailed = [i \in Instances |-> [g \in Flushers |-> {}]]
    /\ hist = [counted |-> {}, degraded |-> {}, applied |-> {}, replay |-> {},
               dropped |-> {}, stale |-> {}, flushed |-> {}]
    /\ faults = [crash |-> 0, rebalance |-> 0, dedupErr |-> 0, falsePos |-> 0,
                 expire |-> 0, storeFail |-> 0, signal |-> 0]

\* ... and an empty counter table
InitWith(zones, up, lim, fd) ==
    /\ store = [k \in Keys |-> 0]
    /\ InitRest(zones, up, lim, fd)

AllFaults ==
    [crash |-> MaxCrash, rebalance |-> MaxRebalance, dedupErr |-> MaxDedupErr,
     falsePos |-> MaxFalsePos, expire |-> MaxExpire, storeFail |-> MaxStoreFail,
     signal |-> MaxSignal]

NoFaults ==
    [crash |-> 0, rebalance |-> 0, dedupErr |-> 0, falsePos |-> 0, expire |-> 0,
     storeFail |-> 0, signal |-> 0]

AllRecords == {<<PartitionOf(Event(e).user), e>> : e \in EventIds}
                 \cup {<<p, Bad>> : p \in Partitions}

\* the events of one user, song and day
FeedKey == {<<0, "e1">>, <<0, "e2">>}

\* one aggregator, every kind of fault, one event id
Init == InitWith({0}, {"i1"}, AllFaults, {<<0, "e1">>})

\* one aggregator that never receives a signal; every other kind of fault
InitCrash == InitWith({0}, {"i1"}, [AllFaults EXCEPT !.signal = 0], FeedKey)

\* two aggregators; crash, restart, rebalance and expiry of the dedup set
InitReplay ==
    InitWith({0}, {"i1", "i2"},
             [NoFaults EXCEPT !.crash = MaxCrash, !.rebalance = MaxRebalance,
                              !.expire = MaxExpire],
             {<<0, "e1">>})

\* one aggregator that is shut down by a signal; no crash and no failure of
\* a store
InitShutdown ==
    InitWith({0}, {"i1"}, [NoFaults EXCEPT !.signal = MaxSignal], FeedKey)

(* --------------------------- crawl-worker ------------------------------ *)
\* publishEvents: a record is appended to the partition of its user
Publish(p, rec) ==
    /\ TotalLen < MaxLog
    /\ <<p, rec>> \in feed
    /\ log' = [log EXCEPT ![p] = Append(@, rec)]
    /\ UNCHANGED <<envVars, committed, owner, store, redisVars, procVars, loopVars,
                   accVars, flushVars, logs, hist, faults>>

(* ------------------------- consumer group ------------------------------ *)
\* Reader.CommitMessages(ctx, msg): the group's offset of msg's partition
\* becomes msg.Offset + 1
CommitMessages(c, m) == [c EXCEPT ![m.p] = m.off + 1]

\* A partition is assigned to a live member, which starts at the committed
\* offset. Taking it from a live owner is a rebalance.
Assign(p, i) ==
    /\ status[i] = "up"
    /\ owner[p] # i
    /\ owner[p] # NoOwner => faults.rebalance < limit.rebalance
    /\ owner' = [owner EXCEPT ![p] = i]
    /\ pos' = [q \in Instances |->
                  IF q = i THEN [pos[q] EXCEPT ![p] = committed[p]]
                  ELSE IF q = owner[p] THEN [pos[q] EXCEPT ![p] = 0]
                  ELSE pos[q]]
    /\ faults' = IF owner[p] # NoOwner
                 THEN [faults EXCEPT !.rebalance = @ + 1] ELSE faults
    /\ UNCHANGED <<envVars, log, committed, store, redisVars, procVars, pc, cur, chk,
                   accVars, flushVars, logs, hist>>

(* ------------------------- consume loop -------------------------------- *)
\* mutant: the consume loop ends at an unparseable record
OnUnmarshalErrorStops(at) == "halt"

\* main loop, line 366-370: after the error is logged and the record
\* committed, `continue` takes the loop back to FetchMessage
OnUnmarshalError(at) == "fetch"

\* main loop: FetchMessage, json.Unmarshal; an unparseable record is
\* committed at once and skipped
Fetch(i) ==
    /\ status[i] = "up" /\ pc[i] = "fetch" /\ ~cancelled[i]
    /\ \E p \in Partitions :
        /\ owner[p] = i
        /\ pos[i][p] < Len(log[p])
        /\ LET m == [p |-> p, off |-> pos[i][p]] IN
           /\ pos' = [pos EXCEPT ![i][p] = @ + 1]
           /\ IF RecordAt(m) = Bad
              THEN /\ logs' = [logs EXCEPT !.unmarshal = @ + 1]
                   /\ \/ committed' = CommitMessages(committed, m)
                      \/ UNCHANGED committed
                   /\ pc' = [pc EXCEPT ![i] = OnUnmarshalError(@)]
                   /\ UNCHANGED cur
              ELSE /\ pc' = [pc EXCEPT ![i] = "reserve"]
                   /\ cur' = [cur EXCEPT ![i] = m]
                   /\ UNCHANGED <<logs, committed>>
    /\ UNCHANGED <<envVars, log, owner, store, redisVars, procVars, chk, accVars,
                   flushVars, hist, faults>>

\* ensureBloomFilter: BF.RESERVE. "item exists" is ignored, any other error
\* is returned and only logged by the caller; a new filter goes on to EXPIRE.
EnsureReserve(i) ==
    /\ status[i] = "up" /\ pc[i] = "reserve"
    /\ LET day == DayOfMsg(cur[i]) IN
       \/ /\ day \in bloomExists
          /\ pc' = [pc EXCEPT ![i] = "bfadd"]
          /\ UNCHANGED bloomExists
       \/ /\ day \notin bloomExists
          /\ bloomExists' = bloomExists \cup {day}
          /\ pc' = [pc EXCEPT ![i] = "expire"]
       \/ /\ pc' = [pc EXCEPT ![i] = "bfadd"]
          /\ UNCHANGED bloomExists
    /\ UNCHANGED <<envVars, kafkaVars, store, bloom, bloomTTL, procVars, pos, cur, chk,
                   accVars, flushVars, logs, hist, faults>>

\* ensureBloomFilter: a.redis.Expire(ctx, key, ttl); its result is not read
EnsureExpire(i) ==
    /\ status[i] = "up" /\ pc[i] = "expire"
    /\ LET day == DayOfMsg(cur[i]) IN
       \/ /\ day \in bloomExists
          /\ bloomTTL' = bloomTTL \cup {day}
       \/ UNCHANGED bloomTTL
    /\ pc' = [pc EXCEPT ![i] = "bfadd"]
    /\ UNCHANGED <<envVars, kafkaVars, store, bloom, bloomExists, procVars, pos, cur,
                   chk, accVars, flushVars, logs, hist, faults>>

\* mutant: a duplicate is counted like a new id
AfterCheckCountsDuplicate(err, isDuplicate) == "count"

\* mutant: a failed dedup check skips the event
AfterCheckSkipsOnError(err, isDuplicate) ==
    IF err \/ isDuplicate THEN "skip" ELSE "count"

\* accumulate, line 441-453: which branch follows checkAndAddToBloom.
\* "count" on an error (process anyway) and on a new id, "skip" on a duplicate.
AfterCheck(err, isDuplicate) ==
    IF err THEN "count" ELSE IF isDuplicate THEN "skip" ELSE "count"

\* checkAndAddToBloom: BF.ADD, atomic in Redis. It creates a missing filter
\* (without expiry). A false positive reports an id never added as present;
\* the filter then reports it present from then on.
BloomAdd(i) ==
    /\ status[i] = "up" /\ pc[i] = "bfadd"
    /\ LET day == DayOfMsg(cur[i])
           id  == RecordAt(cur[i])
       IN
       \/ \* the call fails
          /\ faults.dedupErr < limit.dedupErr
          /\ faults' = [faults EXCEPT !.dedupErr = @ + 1]
          /\ chk' = [chk EXCEPT ![i] = "err"]
          /\ logs' = [logs EXCEPT !.bloomFail = @ + 1]
          /\ pc' = [pc EXCEPT ![i] = AfterCheck(TRUE, FALSE)]
          /\ UNCHANGED <<bloom, bloomExists>>
       \/ \* already present
          /\ id \in bloom[day]
          /\ chk' = [chk EXCEPT ![i] = "dup"]
          /\ pc' = [pc EXCEPT ![i] = AfterCheck(FALSE, TRUE)]
          /\ UNCHANGED <<bloom, bloomExists, logs, faults>>
       \/ \* added
          /\ id \notin bloom[day]
          /\ bloom' = [bloom EXCEPT ![day] = @ \cup {id}]
          /\ bloomExists' = bloomExists \cup {day}
          /\ chk' = [chk EXCEPT ![i] = "new"]
          /\ pc' = [pc EXCEPT ![i] = AfterCheck(FALSE, FALSE)]
          /\ UNCHANGED <<logs, faults>>
       \/ \* false positive
          /\ id \notin bloom[day] /\ bloom[day] # {}
          /\ faults.falsePos < limit.falsePos
          /\ faults' = [faults EXCEPT !.falsePos = @ + 1]
          /\ bloom' = [bloom EXCEPT ![day] = @ \cup {id}]
          /\ chk' = [chk EXCEPT ![i] = "dup"]
          /\ pc' = [pc EXCEPT ![i] = AfterCheck(FALSE, TRUE)]
          /\ UNCHANGED <<bloomExists, logs>>
    /\ UNCHANGED <<envVars, kafkaVars, store, bloomTTL, procVars, pos, cur, accVars,
                   flushVars, hist>>

\* accumulate, duplicate branch (line 447-452)
AccumulateSkip(i) ==
    /\ status[i] = "up" /\ pc[i] = "skip"
    /\ dedupCount' = [dedupCount EXCEPT ![i] = @ + 1]
    /\ lastMsg' = [lastMsg EXCEPT ![i] = cur[i]]
    /\ hasMsg' = [hasMsg EXCEPT ![i] = TRUE]
    /\ pc' = [pc EXCEPT ![i] = "fetch"]
    /\ chk' = [chk EXCEPT ![i] = "none"]
    /\ cur' = [cur EXCEPT ![i] = ZeroMsg]
    /\ UNCHANGED <<envVars, kafkaVars, store, redisVars, procVars, pos, counts,
                   accRecs, flushVars, logs, hist, faults>>

\* a.counts[key]++
Increment(m, k) ==
    IF k \in DOMAIN m THEN [m EXCEPT ![k] = @ + 1] ELSE m @@ (k :> 1)

\* accumulate, counting branch (line 455-465)
AccumulateCount(i) ==
    /\ status[i] = "up" /\ pc[i] = "count"
    /\ counts' = [counts EXCEPT ![i] = Increment(@, KeyOfMsg(cur[i]))]
    /\ lastMsg' = [lastMsg EXCEPT ![i] = cur[i]]
    /\ hasMsg' = [hasMsg EXCEPT ![i] = TRUE]
    /\ accRecs' = [accRecs EXCEPT ![i] = @ \cup {cur[i]}]
    /\ hist' = IF chk[i] = "new"
               THEN [hist EXCEPT !.counted = @ \cup {cur[i]}, !.flushed = @ \ {i}]
               ELSE [hist EXCEPT !.degraded = @ \cup {cur[i]}, !.flushed = @ \ {i}]
    /\ pc' = [pc EXCEPT ![i] = "fetch"]
    /\ chk' = [chk EXCEPT ![i] = "none"]
    /\ cur' = [cur EXCEPT ![i] = ZeroMsg]
    /\ UNCHANGED <<envVars, kafkaVars, store, redisVars, procVars, pos, dedupCount,
                   flushVars, logs, faults>>

Consume(i) ==
    \/ Fetch(i)
    \/ EnsureReserve(i)
    \/ EnsureExpire(i)
    \/ BloomAdd(i)
    \/ AccumulateSkip(i)
    \/ AccumulateCount(i)

(* ------------------------------ flush ---------------------------------- *)
\* mutant: the delta is subtracted
CounterSubtract(st, k, delta) == [st EXCEPT ![k] = @ - delta]

\* UPDATE user_daily_topk SET listen_count = listen_count + ?
CounterAdd(st, k, delta) == [st EXCEPT ![k] = @ + delta]

\* flush, line 507: the commit is issued whenever a message was seen,
\* whatever the outcome of the counter updates
CommitsAfterWrites(seen, failedKeys) == seen

\* mutant: the flush scans a.counts in place and leaves it as it is
KeepCounts(old) == old

\* flush, line 482: a.counts = make(map[AggregateKey]int64); the map the
\* flush goes on to read is no longer reachable from the Aggregator
MakeCounts(old) == EmptyCounts

\* a flush that returns whenever the accumulator is empty, whether or not a
\* record was consumed since the last flush
NothingToFlushIgnoresMsg(c, has) == c = EmptyCounts

\* flush, line 470: len(a.counts) == 0 && !a.hasMsg
NothingToFlush(c, has) == c = EmptyCounts /\ ~has

\* flush, line 469-485: under the mutex, return if there is nothing to do,
\* else take a.counts and reset it. For the shutdown handler the return is
\* followed by cancel().
FlushBegin(i, g) ==
    /\ status[i] = "up" /\ fpc[i][g] = "idle"
    /\ g = "shut" => sig[i] /\ ~shutDone[i]
    /\ IF NothingToFlush(counts[i], hasMsg[i])
       THEN /\ IF g = "shut"
               THEN /\ cancelled' = [cancelled EXCEPT ![i] = TRUE]
                    /\ shutDone' = [shutDone EXCEPT ![i] = TRUE]
               ELSE UNCHANGED <<cancelled, shutDone>>
            /\ UNCHANGED <<accVars, flushVars>>
       ELSE /\ fcounts' = [fcounts EXCEPT ![i][g] = counts[i]]
            /\ fremain' = [fremain EXCEPT ![i][g] = DOMAIN counts[i]]
            /\ flast' = [flast EXCEPT ![i][g] = lastMsg[i]]
            /\ fhas' = [fhas EXCEPT ![i][g] = hasMsg[i]]
            /\ frecs' = [frecs EXCEPT ![i][g] = accRecs[i]]
            /\ ffailed' = [ffailed EXCEPT ![i][g] = {}]
            /\ counts' = [counts EXCEPT ![i] = MakeCounts(@)]
            /\ hasMsg' = [hasMsg EXCEPT ![i] = FALSE]
            /\ dedupCount' = [dedupCount EXCEPT ![i] = 0]
            /\ accRecs' = [accRecs EXCEPT ![i] = {}]
            /\ fpc' = [fpc EXCEPT ![i][g] =
                          IF counts[i] = EmptyCounts THEN "commit" ELSE "write"]
            /\ UNCHANGED <<lastMsg, cancelled, shutDone>>
    /\ UNCHANGED <<envVars, kafkaVars, store, redisVars, status, sig, loopVars, logs,
                   hist, faults>>

\* flush, line 493-503: one iteration of the range loop (Go visits the keys
\* in any order). A failed update is logged and the loop continues.
FlushWrite(i, g) ==
    /\ status[i] = "up" /\ fpc[i][g] = "write"
    /\ \E k \in fremain[i][g] :
        /\ \/ /\ store' = CounterAdd(store, k, fcounts[i][g][k])
              /\ hist' = [hist EXCEPT !.applied =
                              @ \cup {r \in frecs[i][g] : KeyOfMsg(r) = k}]
              /\ UNCHANGED <<logs, faults, ffailed>>
           \/ /\ faults.storeFail < limit.storeFail
              /\ faults' = [faults EXCEPT !.storeFail = @ + 1]
              /\ logs' = [logs EXCEPT !.counterErr = @ + 1]
              /\ ffailed' = [ffailed EXCEPT ![i][g] = @ \cup {k}]
              /\ UNCHANGED <<store, hist>>
        /\ fremain' = [fremain EXCEPT ![i][g] = @ \ {k}]
        /\ fpc' = [fpc EXCEPT ![i][g] =
                      IF fremain[i][g] = {k} THEN "commit" ELSE "write"]
    /\ UNCHANGED <<envVars, kafkaVars, redisVars, procVars, loopVars, accVars,
                   fcounts, flast, fhas, frecs>>

\* flush, line 507-515: CommitMessages(ctx, lastMsg) if hasMsg; the commit may
\* fail. The flush returns; the shutdown handler then calls cancel().
FlushCommit(i, g) ==
    /\ status[i] = "up" /\ fpc[i][g] = "commit"
    /\ IF CommitsAfterWrites(fhas[i][g], ffailed[i][g])
       THEN \/ committed' = CommitMessages(committed, flast[i][g])
            \/ UNCHANGED committed
       ELSE UNCHANGED committed
    /\ fpc' = [fpc EXCEPT ![i][g] = "idle"]
    /\ fcounts' = [fcounts EXCEPT ![i][g] = EmptyCounts]
    /\ flast' = [flast EXCEPT ![i][g] = ZeroMsg]
    /\ fhas' = [fhas EXCEPT ![i][g] = FALSE]
    /\ frecs' = [frecs EXCEPT ![i][g] = {}]
    /\ ffailed' = [ffailed EXCEPT ![i][g] = {}]
    /\ IF g = "shut"
       THEN /\ cancelled' = [cancelled EXCEPT ![i] = TRUE]
            /\ shutDone' = [shutDone EXCEPT ![i] = TRUE]
       ELSE UNCHANGED <<cancelled, shutDone>>
    /\ hist' = [hist EXCEPT !.flushed =
                    IF counts[i] = EmptyCounts THEN @ \cup {i} ELSE @]
    /\ UNCHANGED <<envVars, log, owner, store, redisVars, status, sig, loopVars,
                   accVars, fremain, logs, faults>>

Flush(i, g) ==
    \/ FlushBegin(i, g)
    \/ FlushWrite(i, g)
    \/ FlushCommit(i, g)

(* ------------------------- process lifecycle --------------------------- *)
\* SIGINT/SIGTERM arrives on sigChan
Signal(i) ==
    /\ status[i] = "up" /\ ~sig[i]
    /\ faults.signal < limit.signal
    /\ sig' = [sig EXCEPT ![i] = TRUE]
    /\ faults' = [faults EXCEPT !.signal = @ + 1]
    /\ UNCHANGED <<envVars, kafkaVars, store, redisVars, status, cancelled, shutDone,
                   loopVars, accVars, flushVars, logs, hist>>

\* main loop: FetchMessage returns the context's error, the loop breaks and
\* main returns; the process exits with its goroutines. Its memory is kept
\* as it was at exit until the process is started again.
Exit(i) ==
    /\ status[i] = "up" /\ pc[i] = "fetch" /\ cancelled[i]
    /\ status' = [status EXCEPT ![i] = "stopped"]
    /\ owner' = [p \in Partitions |-> IF owner[p] = i THEN NoOwner ELSE owner[p]]
    /\ UNCHANGED <<envVars, log, committed, store, redisVars, cancelled, sig, shutDone,
                   loopVars, accVars, flushVars, logs, hist, faults>>

\* the process dies at any point; all its memory is lost
Crash(i) ==
    /\ status[i] = "up"
    /\ faults.crash < limit.crash
    /\ faults' = [faults EXCEPT !.crash = @ + 1]
    /\ status' = [status EXCEPT ![i] = "down"]
    /\ owner' = [p \in Partitions |-> IF owner[p] = i THEN NoOwner ELSE owner[p]]
    /\ hist' = [hist EXCEPT
                   !.replay = @ \cup UNION
                       {IF fpc[i][g] = "commit" /\ ffailed[i][g] = {}
                        THEN frecs[i][g] ELSE {} : g \in Flushers},
                   !.dropped = @ \cup accRecs[i] \cup UNION
                       {{r \in frecs[i][g] : KeyOfMsg(r) \in fremain[i][g]} :
                            g \in Flushers},
                   !.flushed = @ \ {i}]
    /\ cancelled' = [cancelled EXCEPT ![i] = FALSE]
    /\ sig' = [sig EXCEPT ![i] = FALSE]
    /\ shutDone' = [shutDone EXCEPT ![i] = FALSE]
    /\ pos' = [pos EXCEPT ![i] = [p \in Partitions |-> 0]]
    /\ pc' = [pc EXCEPT ![i] = "fetch"]
    /\ cur' = [cur EXCEPT ![i] = ZeroMsg]
    /\ chk' = [chk EXCEPT ![i] = "none"]
    /\ counts' = [counts EXCEPT ![i] = EmptyCounts]
    /\ lastMsg' = [lastMsg EXCEPT ![i] = ZeroMsg]
    /\ hasMsg' = [hasMsg EXCEPT ![i] = FALSE]
    /\ dedupCount' = [dedupCount EXCEPT ![i] = 0]
    /\ accRecs' = [accRecs EXCEPT ![i] = {}]
    /\ fpc' = [fpc EXCEPT ![i] = [g \in Flushers |-> "idle"]]
    /\ fcounts' = [fcounts EXCEPT ![i] = [g \in Flushers |-> EmptyCounts]]
    /\ fremain' = [fremain EXCEPT ![i] = [g \in Flushers |-> {}]]
    /\ flast' = [flast EXCEPT ![i] = [g \in Flushers |-> ZeroMsg]]
    /\ fhas' = [fhas EXCEPT ![i] = [g \in Flushers |-> FALSE]]
    /\ frecs' = [frecs EXCEPT ![i] = [g \in Flushers |-> {}]]
    /\ ffailed' = [ffailed EXCEPT ![i] = [g \in Flushers |-> {}]]
    /\ UNCHANGED <<envVars, log, committed, store, redisVars, logs>>

\* main, line 268-322: a new process starts with an empty Aggregator
Restart(i) ==
    /\ status[i] \in {"down", "stopped"}
    /\ status' = [status EXCEPT ![i] = "up"]
    /\ cancelled' = [cancelled EXCEPT ![i] = FALSE]
    /\ sig' = [sig EXCEPT ![i] = FALSE]
    /\ shutDone' = [shutDone EXCEPT ![i] = FALSE]
    /\ pos' = [pos EXCEPT ![i] = [p \in Partitions |-> 0]]
    /\ pc' = [pc EXCEPT ![i] = "fetch"]
    /\ cur' = [cur EXCEPT ![i] = ZeroMsg]
    /\ chk' = [chk EXCEPT ![i] = "none"]
    /\ counts' = [counts EXCEPT ![i] = EmptyCounts]
    /\ lastMsg' = [lastMsg EXCEPT ![i] = ZeroMsg]
    /\ hasMsg' = [hasMsg EXCEPT ![i] = FALSE]
    /\ dedupCount' = [dedupCount EXCEPT ![i] = 0]
    /\ accRecs' = [accRecs EXCEPT ![i] = {}]
    /\ fpc' = [fpc EXCEPT ![i] = [g \in Flushers |-> "idle"]]
    /\ fcounts' = [fcounts EXCEPT ![i] = [g \in Flushers |-> EmptyCounts]]
    /\ fremain' = [fremain EXCEPT ![i] = [g \in Flushers |-> {}]]
    /\ flast' = [flast EXCEPT ![i] = [g \in Flushers |-> ZeroMsg]]
    /\ fhas' = [fhas EXCEPT ![i] = [g \in Flushers |-> FALSE]]
    /\ frecs' = [frecs EXCEPT ![i] = [g \in Flushers |-> {}]]
    /\ ffailed' = [ffailed EXCEPT ![i] = [g \in Flushers |-> {}]]
    /\ hist' = [hist EXCEPT !.flushed = @ \ {i}]
    /\ UNCHANGED <<envVars, kafkaVars, store, redisVars, logs, faults>>

(* ----------------------------- Redis ----------------------------------- *)
\* a filter key that carries an expiry is deleted when the expiry is due
\* (bloomTTLDays days after EXPIRE)
BloomExpire(day) ==
    /\ day \in bloomTTL
    /\ faults.expire < limit.expire
    /\ faults' = [faults EXCEPT !.expire = @ + 1]
    /\ bloom' = [bloom EXCEPT ![day] = {}]
    /\ bloomExists' = bloomExists \ {day}
    /\ bloomTTL' = bloomTTL \ {day}
    /\ hist' = [hist EXCEPT !.stale = @ \cup
                    {m \in Msgs : /\ m.off < Len(log[m.p])
                                  /\ RecordAt(m) # Bad
                                  /\ DayOfMsg(m) = day}]
    /\ UNCHANGED <<envVars, kafkaVars, store, procVars, loopVars, accVars, flushVars,
                   logs>>

Next ==
    \/ \E p \in Partitions, rec \in EventIds \cup {Bad} : Publish(p, rec)
    \/ \E p \in Partitions, i \in Instances : Assign(p, i)
    \/ \E i \in Instances : Consume(i)
    \/ \E i \in Instances, g \in Flushers : Flush(i, g)
    \/ \E i \in Instances : Signal(i)
    \/ \E i \in Instances : Exit(i)
    \/ \E i \in Instances : Crash(i)
    \/ \E i \in Instances : Restart(i)
    \/ \E day \in Days : BloomExpire(day)

Spec == Init /\ [][Next]_vars

NextReplay ==
    \/ \E p \in Partitions, rec \in EventIds \cup {Bad} : Publish(p, rec)
    \/ \E p \in Partitions, i \in Instances : Assign(p, i)
    \/ \E i \in Instances : Consume(i)
    \/ \E i \in Instances, g \in Flushers : Flush(i, g)
    \/ \E i \in Instances : Crash(i)
    \/ \E i \in Instances : Restart(i)
    \/ \E day \in Days : BloomExpire(day)

SpecReplay == InitReplay /\ [][NextReplay]_vars

SpecCrash == InitCrash /\ [][NextReplay]_vars

NextShutdown ==
    \/ \E p \in Partitions, rec \in EventIds \cup {Bad} : Publish(p, rec)
    \/ \E p \in Partitions, i \in Instances : Assign(p, i)
    \/ \E i \in Instances : Consume(i)
    \/ \E i \in Instances, g \in Flushers : Flush(i, g)
    \/ \E i \in Instances : Signal(i)
    \/ \E i \in Instances : Exit(i)
    \/ \E i \in Instances : Restart(i)

SpecShutdown == InitShutdown /\ [][NextShutdown]_vars

\* one aggregator whose consume loop runs next to the periodic flush and the
\* shutdown flush; the process stays up and no store fails
NextDrain ==
    \/ \E p \in Partitions, rec \in EventIds : Publish(p, rec)
    \/ \E i \in Instances : Consume(i)
    \/ \E i \in Instances, g \in Flushers : Flush(i, g)
    \/ \E i \in Instances : Signal(i)

SpecDrain == InitShutdown /\ [][NextDrain]_vars

\* two aggregators and an event id that the producers deliver more than
\* once, also to the partition its user does not hash to, next to an event
\* of another user on the same day; the dedup store may fail, report a false
\* positive or expire, no process crashes
InitShared ==
    InitWith({0}, {"i1", "i2"},
             [NoFaults EXCEPT !.rebalance = MaxRebalance, !.dedupErr = MaxDedupErr,
                              !.falsePos = MaxFalsePos, !.expire = MaxExpire],
             {<<0, "e1">>, <<1, "e1">>, <<1, "e3">>})

NextShared ==
    \/ \E p \in Partitions, rec \in EventIds : Publish(p, rec)
    \/ \E p \in Partitions, i \in Instances : Assign(p, i)
    \/ \E i \in Instances : Consume(i)
    \/ \E i \in Instances, g \in Flushers : Flush(i, g)
    \/ \E day \in Days : BloomExpire(day)

SpecShared == InitShared /\ [][NextShared]_vars

\* one aggregator in a deployment whose local zone is any of TZOffsets
InitZone == InitWith(TZOffsets, {"i1"}, NoFaults, {<<0, "e1">>, <<1, "e3">>})

NextZone ==
    \/ \E p \in Partitions, rec \in EventIds : Publish(p, rec)
    \/ \E i \in Instances : Consume(i)
    \/ \E i \in Instances, g \in Flushers : Flush(i, g)

SpecZone == InitZone /\ [][NextZone]_vars

\* one aggregator and a topic on which records are delivered twice; no
\* signal arrives, so the ticker goroutine keeps calling flush
InitDup ==
    InitWith({0}, {"i1"}, NoFaults, {<<0, "e1">>, <<0, "e2">>, <<1, "e3">>})

NextDup ==
    \/ \E p \in Partitions, rec \in EventIds : Publish(p, rec)
    \/ \E i \in Instances : Consume(i)
    \/ \E i \in Instances : Flush(i, "tick")

SpecDup == InitDup /\ [][NextDup]_vars /\ WF_vars(Flush("i1", "tick"))

\* one aggregator and a topic that carries unparseable records among the
\* events
InitParse == InitWith({0}, {"i1"}, NoFaults, {<<0, Bad>>, <<0, "e1">>})

NextParse ==
    \/ \E p \in Partitions, rec \in EventIds \cup {Bad} : Publish(p, rec)
    \/ \E i \in Instances : Consume(i)
    \/ \E i \in Instances, g \in Flushers : Flush(i, g)

SpecParse == InitParse /\ [][NextParse]_vars

(* ======================= crawl scheduler =============================== *)
\* everything the scheduler's steps leave alone
aggVars == <<tz, limit, feed, kafkaVars, store, redisVars, procVars, loopVars,
             accVars, flushVars, logs, hist, faults, crawlVars, apiVars, rawVars>>

\* the row has stayed in its status beyond the staleness threshold
Stale(r) == rowStatus[r] # "IDLE" /\ rowAge[r] > StaleTicks

\* poll(), the scan: the rows with status = IDLE and next_run_at <= now
PollSelect(s) ==
    /\ cand[s] = {}
    /\ \E r \in Rows : rowStatus[r] = "IDLE" /\ rowWait[r] = 0
    /\ cand' = [cand EXCEPT ![s] = {r \in Rows : rowStatus[r] = "IDLE" /\ rowWait[r] = 0}]
    /\ UNCHANGED <<aggVars, rowStatus, rowAge, rowWait, jobq, winners, reclaimed>>

\* mutant: the claim writes ENQUEUED without comparing the status
CanClaimBlind(st, w) == TRUE

\* poll(), the compare of the compare-and-swap claim
CanClaim(st, w) == st = "IDLE" /\ w = 0

\* poll(), the claim of one selected row: IDLE -> ENQUEUED when the row is
\* still IDLE and due, and the job is enqueued; otherwise the row is skipped
ClaimRow(s, r) ==
    /\ r \in cand[s]
    /\ cand' = [cand EXCEPT ![s] = @ \ {r}]
    /\ IF CanClaim(rowStatus[r], rowWait[r])
       THEN /\ rowStatus' = [rowStatus EXCEPT ![r] = "ENQUEUED"]
            /\ rowAge' = [rowAge EXCEPT ![r] = 0]
            /\ jobq' = jobq \cup {r}
            /\ winners' = [winners EXCEPT ![r] = @ \cup {s}]
       ELSE UNCHANGED <<rowStatus, rowAge, jobq, winners>>
    /\ UNCHANGED <<aggVars, rowWait, reclaimed>>

\* a worker takes the job of row r from the queue: ENQUEUED -> RUNNING; a job
\* whose row is no longer ENQUEUED is dropped
WorkerStart(r) ==
    /\ r \in jobq
    /\ jobq' = jobq \ {r}
    /\ IF rowStatus[r] = "ENQUEUED"
       THEN /\ rowStatus' = [rowStatus EXCEPT ![r] = "RUNNING"]
            /\ rowAge' = [rowAge EXCEPT ![r] = 0]
       ELSE UNCHANGED <<rowStatus, rowAge>>
    /\ UNCHANGED <<aggVars, rowWait, cand, winners, reclaimed>>

\* the ready queue loses the job of row r (the queue crashed)
JobLost(r) ==
    /\ r \in jobq
    /\ jobq' = jobq \ {r}
    /\ UNCHANGED <<aggVars, rowStatus, rowAge, rowWait, cand, winners, reclaimed>>

\* onJobComplete(user, provider): RUNNING -> IDLE, next_run_at = now + period
onJobComplete(r) ==
    /\ rowStatus[r] = "RUNNING"
    /\ rowStatus' = [rowStatus EXCEPT ![r] = "IDLE"]
    /\ rowAge' = [rowAge EXCEPT ![r] = 0]
    /\ rowWait' = [rowWait EXCEPT ![r] = PeriodTicks]
    /\ winners' = [winners EXCEPT ![r] = {}]
    /\ reclaimed' = reclaimed \ {r}
    /\ UNCHANGED <<aggVars, cand, jobq>>

\* mutant: reconcile() reclaims any claimed row, stale or not
CanReconcileFresh(st, a) == st \in {"ENQUEUED", "RUNNING"}

\* mutant: reconcile() looks at stale ENQUEUED rows only
CanReconcileEnqueuedOnly(st, a) == st = "ENQUEUED" /\ a > StaleTicks

\* reconcile(), the selection: ENQUEUED or RUNNING longer than the threshold
CanReconcile(st, a) == st \in {"ENQUEUED", "RUNNING"} /\ a > StaleTicks

\* reconcile() on one stuck row: back to IDLE with next_run_at = now
Reconcile(r) ==
    /\ CanReconcile(rowStatus[r], rowAge[r])
    /\ rowStatus' = [rowStatus EXCEPT ![r] = "IDLE"]
    /\ rowAge' = [rowAge EXCEPT ![r] = 0]
    /\ rowWait' = [rowWait EXCEPT ![r] = 0]
    /\ winners' = [winners EXCEPT ![r] = {}]
    /\ reclaimed' = reclaimed \cup {r}
    /\ UNCHANGED <<aggVars, cand, jobq>>

\* time passes: claimed rows age, idle rows come closer to their next run
Tick ==
    /\ \E r \in Rows : \/ rowStatus[r] # "IDLE" /\ rowAge[r] <= StaleTicks
                       \/ rowStatus[r] = "IDLE" /\ rowWait[r] > 0
    /\ rowAge' = [r \in Rows |->
                    IF rowStatus[r] # "IDLE" /\ rowAge[r] <= StaleTicks
                    THEN rowAge[r] + 1 ELSE rowAge[r]]
    /\ rowWait' = [r \in Rows |->
                    IF rowStatus[r] = "IDLE" /\ rowWait[r] > 0
                    THEN rowWait[r] - 1 ELSE rowWait[r]]
    /\ UNCHANGED <<aggVars, rowStatus, cand, jobq, winners, reclaimed>>

\* the scheduler alone: no aggregator runs and nothing is published
InitSched == InitWith({0}, {}, NoFaults, {})

NextSched ==
    \/ \E s \in Schedulers : PollSelect(s)
    \/ \E s \in Schedulers, r \in Rows : ClaimRow(s, r)
    \/ \E r \in Rows : WorkerStart(r)
    \/ \E r \in Rows : JobLost(r)
    \/ \E r \in Rows : onJobComplete(r)
    \/ \E r \in Rows : Reconcile(r)
    \/ Tick

SpecSched == InitSched /\ [][NextSched]_vars

\* reconcile() keeps being run and time keeps passing
SpecSchedLive ==
    /\ InitSched
    /\ [][NextSched]_vars
    /\ WF_vars(Tick)
    /\ \A r \in Rows : WF_vars(Reconcile(r))

(* ========================= crawl worker ================================ *)
\* what the handler of a crawl task leaves alone, the event log apart
crawlFrame == <<tz, limit, feed, schedVars, apiVars, rawVars, committed, owner, store, redisVars,
                procVars, loopVars, accVars, flushVars, logs, hist, faults>>

Now == StartTime + clk

\* the queue's handling of a task whose handler returned an error or whose
\* worker died: retried while the retry budget lasts, archived after
FailTask(tk) ==
    IF tk.retried < MaxRetry
    THEN [tk EXCEPT !.st = "retry", !.retried = @ + 1, !.pc = "none"]
    ELSE [tk EXCEPT !.st = "archived", !.pc = "none"]

\* a worker takes a pending task and calls HandleCrawlUserTask
Dequeue(t) ==
    /\ task[t].st = "pending"
    /\ task' = [task EXCEPT ![t].st = "active", ![t].pc = "fetch"]
    /\ UNCHANGED <<crawlFrame, log, hnow, clk, execs>>

\* the queue makes a task waiting for its retry pending again
RetryTask(t) ==
    /\ task[t].st = "retry"
    /\ task' = [task EXCEPT ![t].st = "pending"]
    /\ UNCHANGED <<crawlFrame, log, hnow, clk, execs>>

\* HandleCrawlUserTask, step 1: fetchListenHistory reads the clock
HandleFetch(t) ==
    /\ task[t].st = "active" /\ task[t].pc = "fetch"
    /\ hnow' = [hnow EXCEPT ![t] = Now]
    /\ task' = [task EXCEPT ![t].pc = "publish"]
    /\ UNCHANGED <<crawlFrame, log, clk, execs>>

\* HandleCrawlUserTask, step 2: publishEvents writes the batch keyed by the
\* user id, or fails and the handler returns the error
HandlePublish(t) ==
    /\ task[t].st = "active" /\ task[t].pc = "publish"
    /\ \/ LET events == fetchListenHistory(CrawlUser, CrawlProvider,
                                           task[t].since, hnow[t])
              ids == [n \in 1..EventsPerCrawl |-> events[n].EventID]
          IN  /\ log' = [log EXCEPT ![PartitionOf(CrawlUser)] = @ \o ids]
              /\ execs' = execs \cup {[since |-> task[t].since, now |-> hnow[t]]}
              /\ task' = [task EXCEPT ![t].pc = "resched"]
       \/ /\ task' = [task EXCEPT ![t] = FailTask(@)]
          /\ UNCHANGED <<log, execs>>
    /\ UNCHANGED <<crawlFrame, hnow, clk>>

\* HandleCrawlUserTask, step 3 when reschedule fails: a warning is logged
\* and the handler goes on to return nil
RescheduleFailed(tk) == [tk EXCEPT !.pc = "ret"]

\* HandleCrawlUserTask, step 3: reschedule enqueues a new task for the pair
\* with since = now, to be processed in 24 hours, or fails
HandleReschedule(t) ==
    /\ task[t].st = "active" /\ task[t].pc = "resched"
    /\ \/ \E n \in TaskIds :
             /\ task[n].st = "none"
             /\ \A m \in TaskIds : m < n => task[m].st # "none"
             /\ task' = [task EXCEPT ![t].pc = "ret",
                                     ![n] = [NoTask EXCEPT !.st = "scheduled",
                                                           !.since = Now]]
       \/ task' = [task EXCEPT ![t] = RescheduleFailed(@)]
    /\ UNCHANGED <<crawlFrame, log, hnow, clk, execs>>

\* HandleCrawlUserTask returns nil: the queue marks the task done
HandleReturn(t) ==
    /\ task[t].st = "active" /\ task[t].pc = "ret"
    /\ task' = [task EXCEPT ![t].st = "done", ![t].pc = "none"]
    /\ UNCHANGED <<crawlFrame, log, hnow, clk, execs>>

\* the worker dies while the handler runs: the queue recovers the task
WorkerCrash(t) ==
    /\ task[t].st = "active"
    /\ task' = [task EXCEPT ![t] = FailTask(@)]
    /\ UNCHANGED <<crawlFrame, log, hnow, clk, execs>>

\* a second passes
ClockTick ==
    /\ clk < MaxClock
    /\ clk' = clk + 1
    /\ UNCHANGED <<crawlFrame, log, task, hnow, execs>>

\* the crawl worker and one aggregator without failures of its own
InitCrawl == InitWith({0}, {"i1"}, NoFaults, {})

NextCrawl ==
    \/ \E t \in TaskIds : Dequeue(t)
    \/ \E t \in TaskIds : RetryTask(t)
    \/ \E t \in TaskIds : HandleFetch(t)
    \/ \E t \in TaskIds : HandlePublish(t)
    \/ \E t \in TaskIds : HandleReschedule(t)
    \/ \E t \in TaskIds : HandleReturn(t)
    \/ \E t \in TaskIds : WorkerCrash(t)
    \/ ClockTick
    \/ \E i \in Instances : Consume(i)
    \/ \E i \in Instances, g \in Flushers : Flush(i, g)

SpecCrawl == InitCrawl /\ [][NextCrawl]_vars

(* ======================= raw-event-processor =========================== *)
\* what the raw-event-processor leaves alone
rawFrame == <<tz, limit, feed, schedVars, crawlVars, apiVars, kafkaVars, store,
              redisVars, procVars, loopVars, accVars, flushVars, logs, hist, faults>>

\* main, line 72-104: one turn of the loop on the next record of partition
\* p. An unparseable record is committed and skipped; an event is written
\* and then committed (the commit may fail, which is only logged); when the
\* write fails nothing is committed and the loop continues with the next
\* record.
RawProcess(p) ==
    /\ rpos[p] < Len(log[p])
    /\ LET m == [p |-> p, off |-> rpos[p]] IN
       /\ rpos' = [rpos EXCEPT ![p] = @ + 1]
       /\ IF RecordAt(m) = Bad
          THEN /\ \/ rcommitted' = CommitMessages(rcommitted, m)
                  \/ UNCHANGED rcommitted
               /\ UNCHANGED <<rstore, rfails>>
          ELSE \/ /\ rstore' = rstore \cup {m}
                  /\ \/ rcommitted' = CommitMessages(rcommitted, m)
                     \/ UNCHANGED rcommitted
                  /\ UNCHANGED rfails
               \/ /\ rfails < MaxWriteFail
                  /\ rfails' = rfails + 1
                  /\ UNCHANGED <<rstore, rcommitted>>
    /\ UNCHANGED rawFrame

\* the process is stopped or dies and is started again: the reader resumes
\* at the committed offsets of its group
RawRestart ==
    /\ rpos # rcommitted
    /\ rpos' = rcommitted
    /\ UNCHANGED <<rawFrame, rcommitted, rstore, rfails>>

\* the topic carries events and unparseable records
InitRaw ==
    InitWith({0}, {}, NoFaults, FeedKey \cup {<<0, Bad>>, <<1, "e3">>})

NextRaw ==
    \/ \E p \in Partitions, rec \in EventIds \cup {Bad} : Publish(p, rec)
    \/ \E p \in Partitions : RawProcess(p)
    \/ RawRestart

SpecRaw == InitRaw /\ [][NextRaw]_vars

(* =========================== API server ================================ *)
apiFrame == <<tz, limit, feed, schedVars, crawlVars, rawVars, kafkaVars, store, redisVars,
              procVars, loopVars, accVars, flushVars, logs, hist, faults>>

DigitVal ==
    [c \in {"0", "1", "2", "3", "4", "5", "6", "7", "8", "9"} |->
        CASE c = "0" -> 0 [] c = "1" -> 1 [] c = "2" -> 2 [] c = "3" -> 3
          [] c = "4" -> 4 [] c = "5" -> 5 [] c = "6" -> 6 [] c = "7" -> 7
          [] c = "8" -> 8 [] c = "9" -> 9]

RECURSIVE DigitsValue(_)
DigitsValue(sq) ==
    IF sq = <<>> THEN 0
    ELSE 10 * DigitsValue(SubSeq(sq, 1, Len(sq) - 1)) + DigitVal[sq[Len(sq)]]

\* strconv.Atoi on a string given as its characters: an optional sign and
\* at least one decimal digit, anything else is an error
Atoi(sq) ==
    LET signed == Len(sq) > 0 /\ sq[1] \in {"+", "-"}
        digits == IF signed THEN Tail(sq) ELSE sq
        sign == IF signed /\ sq[1] = "-" THEN -1 ELSE 1
    IN  IF digits = <<>> \/ \E n \in 1..Len(digits) : digits[n] \notin DOMAIN DigitVal
        THEN [err |-> TRUE, val |-> 0]
        ELSE [err |-> FALSE, val |-> sign * DigitsValue(digits)]

\* getQueryInt(r, key, defaultVal); val is r.URL.Query().Get(key)
getQueryInt(val, defaultVal) ==
    IF val = <<>> THEN defaultVal
    ELSE IF Atoi(val).err THEN defaultVal
    ELSE Atoi(val).val

\* mutant: the window starts yesterday
DayListFromYesterday(today, days) == [n \in 1..days |-> today - n]

\* computeTopK: today.AddDate(0, 0, -i) for i = 0 .. days-1, in UTC
DayList(today, days) == [n \in 1..days |-> today - (n - 1)]

\* the rows SELECT song_id, listen_count ... WHERE user_id = ? AND day = ?
\* returns: a counter row exists once it was incremented
RowsOf(userID, day) ==
    {key \in Keys : key.user = userID /\ key.day = day /\ store[key] > 0}

RECURSIVE SumRows(_)
SumRows(rows) ==
    IF rows = {} THEN 0
    ELSE LET key == CHOOSE x \in rows : TRUE
         IN  store[key] + SumRows(rows \ {key})

\* computeTopK: songCounts after the loop over dayList
SongCounts(userID, dayList) ==
    LET rows == UNION {RowsOf(userID, dayList[n]) : n \in 1..Len(dayList)}
        songs == {key.song : key \in rows}
    IN  [sg \in songs |-> SumRows({key \in rows : key.song = sg})]

\* mutant: the comparison is turned round
LessAscending(x, y) == x.count < y.count

\* the comparison handed to sort.Slice
Less(x, y) == x.count > y.count

\* sort.Slice over the entries of the map, which Go ranges over in no fixed
\* order: every arrangement in which no entry is Less than one before it
SortedOrders(songCounts) ==
    LET n == Cardinality(DOMAIN songCounts)
        entry(sg) == [songID |-> sg, count |-> songCounts[sg]]
    IN  {sq \in [1..n -> {entry(sg) : sg \in DOMAIN songCounts}] :
            /\ \A a, b \in 1..n : a # b => sq[a] # sq[b]
            /\ \A a, b \in 1..n : a < b => ~Less(sq[b], sq[a])}

\* computeTopK, line 192-217: sort, cut to k, rank
TopKOf(songCounts, k) ==
    {[n \in 1..(IF Len(sq) > k THEN k ELSE Len(sq)) |->
        [song_id |-> sq[n].songID, listen_count |-> sq[n].count, rank |-> n]] :
     sq \in SortedOrders(songCounts)}

\* computeTopK: the results it may return when every read succeeds
computeTopK(userID, days, k) ==
    LET today == FormatDay(ApiNow, 0)
    IN  TopKOf(SongCounts(userID, DayList(today, days)), k)

\* mutant: a failed read is passed over and the days read so far are ranked
QueryErrorKeepsPartial(partial) == [err |-> FALSE, results |-> partial]

\* computeTopK, line 186-188: iter.Close() reports an error; what was summed
\* from the days before it is dropped
QueryError(partial) == [err |-> TRUE, results |-> <<>>]

\* mutant: one entry per user
CacheKeyUserOnly(userID, days, k) == <<userID, 0, 0>>

\* fmt.Sprintf("topk:%s:%d:%d", userID, days, k)
CacheKey(userID, days, k) == <<userID, days, k>>

\* redisClient.Get: the entry, redis.Nil when there is none, or a failure
CacheGet(c, cacheKey) ==
    (IF cacheKey \in DOMAIN c THEN {"hit"} ELSE {"miss"}) \cup {"err"}

\* mutant: only redis.Nil leads to the computation, a failure is an error
AfterGetFailsHard(outcome) ==
    CASE outcome = "hit" -> "hit" [] outcome = "miss" -> "compute" [] OTHER -> "fail"

\* topKHandler, line 122-128: err == nil serves the cached bytes, any error
\* goes on to the computation
AfterGet(outcome) == IF outcome = "hit" THEN "hit" ELSE "compute"

\* http.Error(w, ..., code)
HttpError(code) == [NoResponse EXCEPT !.status = code]

\* topKHandler, line 138-158: the response is built and marshalled, Set is
\* called (its error is not read) and the bytes are written with X-Cache: MISS
WriteComputed(cacheKey, response, made) ==
    /\ resp' = [status |-> 200, xcache |-> "MISS", body |-> response]
    /\ \/ /\ cache' = [c \in DOMAIN cache \cup {cacheKey} |->
                          IF c = cacheKey THEN response ELSE cache[c]]
          /\ calls' = [made EXCEPT !.set = "ok"]
       \/ /\ UNCHANGED cache
          /\ calls' = [made EXCEPT !.set = "err"]

\* http.ServeMux: the path of the request has a repeated slash
RepeatedSlash(parts) == \E n \in 1..(Len(parts) - 1) : parts[n] = ""

\* http.ServeMux: a path that is not clean is answered with a redirect to
\* its clean form; the handler is not called
MuxRedirect(r) ==
    /\ nreq < MaxRequests
    /\ RepeatedSlash(r.parts)
    /\ nreq' = nreq + 1
    /\ req' = r
    /\ resp' = HttpError(301)
    /\ calls' = NoCalls
    /\ UNCHANGED <<cache, apiFrame>>

\* topKHandler: GET /users/{user_id}/topk?days=..&k=..
topKHandler(r) ==
    /\ nreq < MaxRequests
    /\ ~RepeatedSlash(r.parts)
    /\ nreq' = nreq + 1
    /\ req' = r
    /\ IF r.method # "GET"
       THEN resp' = HttpError(405) /\ calls' = NoCalls /\ UNCHANGED cache
       ELSE IF Len(r.parts) # 2 \/ r.parts[2] # "topk"
       THEN resp' = HttpError(400) /\ calls' = NoCalls /\ UNCHANGED cache
       ELSE
         LET userID == r.parts[1]
             days == getQueryInt(r.days, 7)
             k == getQueryInt(r.k, 10)
             cacheKey == CacheKey(userID, days, k)
             dayList == DayList(FormatDay(ApiNow, 0), days)
         IN  IF days < 1 \/ days > 30 \/ k < 1 \/ k > 100
             THEN resp' = HttpError(400) /\ calls' = NoCalls /\ UNCHANGED cache
             ELSE \E outcome \in CacheGet(cache, cacheKey) :
                LET got == [NoCalls EXCEPT !.get = outcome] IN
                CASE AfterGet(outcome) = "hit" ->
                        /\ resp' = [status |-> 200, xcache |-> "HIT",
                                    body |-> cache[cacheKey]]
                        /\ calls' = got
                        /\ UNCHANGED cache
                  [] AfterGet(outcome) = "fail" ->
                        /\ resp' = HttpError(500)
                        /\ calls' = got
                        /\ UNCHANGED cache
                  [] OTHER ->
                        \/ \E results \in computeTopK(userID, days, k) :
                              WriteComputed(cacheKey,
                                  [user_id |-> userID, days |-> days, k |-> k,
                                   results |-> results, cached |-> FALSE],
                                  [got EXCEPT !.reads = days])
                        \/ \E failAt \in 1..days :
                              LET made == [got EXCEPT !.reads = failAt,
                                                      !.failed = failAt]
                                  summed == SongCounts(userID,
                                                SubSeq(dayList, 1, failAt - 1))
                              IN  IF QueryError(<<>>).err
                                  THEN /\ resp' = HttpError(500)
                                       /\ calls' = made
                                       /\ UNCHANGED cache
                                  ELSE \E partial \in TopKOf(summed, k) :
                                       WriteComputed(cacheKey,
                                          [user_id |-> userID, days |-> days, k |-> k,
                                           results |-> QueryError(partial).results,
                                           cached |-> FALSE],
                                          made)
    /\ UNCHANGED apiFrame

\* the TTL of a cache entry runs out
CacheExpire(c) ==
    /\ c \in DOMAIN cache
    /\ cache' = [x \in DOMAIN cache \ {c} |-> cache[x]]
    /\ UNCHANGED <<apiFrame, resp, req, nreq, calls>>

\* the values sent for days and for k, as character sequences (empty: the
\* parameter is absent)
RawDays == {<<>>, <<"1">>, <<"2">>, <<"0">>, <<"3", "1">>, <<"x">>}
RawK == {<<>>, <<"2">>, <<"1", "0", "1">>, <<"x">>}

\* the requests sent: the path is given by its segments after /users/
Requests ==
    [method : {"GET"}, parts : {<<ApiUser, "topk">>}, days : RawDays, k : RawK]
    \cup {[method |-> "POST", parts |-> <<ApiUser, "topk">>, days |-> <<>>, k |-> <<>>],
          [method |-> "GET", parts |-> <<ApiUser>>, days |-> <<>>, k |-> <<>>],
          [method |-> "GET", parts |-> <<"", "topk">>, days |-> <<>>, k |-> <<>>]}

\* counter tables of ApiUser over today and yesterday
ApiTables ==
    LET today == FormatDay(ApiNow, 0)
        table(t) ==
            [key \in Keys |->
                IF key.user # ApiUser \/ key.song \notin ApiSongs THEN 0
                ELSE IF key.day = today
                     THEN (CASE key.song = "a" -> t.a0 [] key.song = "b" -> t.b0
                             [] OTHER -> t.c0)
                ELSE IF key.day = today - 1
                     THEN (CASE key.song = "a" -> t.a1 [] OTHER -> 0)
                ELSE 0]
    IN  {table(t) : t \in [a0 : {3, 5}, b0 : {0, 3}, c0 : {0, 3}, a1 : {0, 2}]}

InitApi ==
    /\ store \in ApiTables
    /\ InitRest({0}, {}, NoFaults, {})

NextApi ==
    \/ \E r \in Requests : MuxRedirect(r)
    \/ \E r \in Requests : topKHandler(r)
    \/ \E c \in DOMAIN cache : CacheExpire(c)

SpecApi == InitApi /\ [][NextApi]_vars

\* the API server next to a running aggregator: an empty counter table, one
\* event of ApiUser inside the query window, no faults
InitServe == InitWith({0}, {"i1"}, NoFaults, {<<0, "e1">>})

\* the requests sent while the aggregator runs
ServeRequests ==
    {r \in Requests : r.method = "GET" /\ r.days \in {<<>>, <<"2">>}
                                       /\ r.k \in {<<>>, <<"2">>}}

NextServe ==
    \/ \E r \in ServeRequests : MuxRedirect(r)
    \/ \E r \in ServeRequests : topKHandler(r)
    \/ \E c \in DOMAIN cache : CacheExpire(c)
    \/ \E p \in Partitions, rec \in EventIds : Publish(p, rec)
    \/ \E i \in Instances : Consume(i)
    \/ \E i \in Instances, g \in Flushers : Flush(i, g)

SpecServe == InitServe /\ [][NextServe]_vars

(* ======================== properties =================================== *)
\* the event ids delivered (published to the log) that the aggregator credits
\* to key k
DeliveredIds(k) ==
    {e \in EventIds : /\ \E p \in Partitions : \E n \in 1..Len(log[p]) : log[p][n] = e
                      /\ KeyOfId(e) = k}

\* C1 as stated: whenever every dedup check succeeded, no persisted count
\* exceeds the number of distinct event ids delivered for its key.
C1_NoOverCount ==
    faults.dedupErr = 0 =>
        \A k \in Keys : store[k] <= Cardinality(DeliveredIds(k))

\* C1, amended: whenever every dedup check succeeded and no day's dedup set
\* has expired, no persisted count exceeds the number of distinct event ids
\* delivered for its key.
C1_NoOverCountInWindow ==
    (faults.dedupErr = 0 /\ faults.expire = 0) =>
        \A k \in Keys : store[k] <= Cardinality(DeliveredIds(k))

\* C1 witness: after a crash and a reassignment, a redelivered event was
\* skipped as a duplicate and its key's count is the number of distinct ids
C1_Witness ==
    /\ faults.crash > 0 /\ faults.rebalance > 0 /\ faults.expire = 0
    /\ \E i \in Instances : dedupCount[i] > 0
    /\ \E k \in Keys : store[k] > 0 /\ store[k] = Cardinality(DeliveredIds(k))

\* the flush goroutine g of instance i returns from flush in this step
FlushReturns(i, g) ==
    fpc[i][g] = "commit" /\ fpc'[i][g] = "idle" /\ status'[i] = "up"

\* the records of flush (i, g) whose key's counter update failed
FailedRecs(i, g) == {r \in frecs[i][g] : KeyOfMsg(r) \in ffailed[i][g]}

\* C2: every record below the committed offset of its partition that was
\* counted (its id was new to the dedup set) has had its increment applied
\* to the counter table.
C2_FlushThenCommit ==
    \A m \in hist.counted : m.off < committed[m.p] => m \in hist.applied

\* C3: a flush in which the update of some key failed does not commit an
\* offset covering a record that contributed to that key's delta.
C3_NoCommitPastFailedKey ==
    [][\A i \in Instances, g \in Flushers :
         FlushReturns(i, g) =>
            \/ committed' = committed
            \/ \A r \in FailedRecs(i, g) : committed'[r.p] <= r.off]_vars

\* C4: when a flush returns, every delta whose update failed in it is back
\* in the live accumulator.
C4_FailedDeltaRemerged ==
    [][\A i \in Instances, g \in Flushers :
         FlushReturns(i, g) =>
            \A k \in ffailed[i][g] :
                /\ k \in DOMAIN counts'[i]
                /\ counts'[i][k] >= fcounts[i][g][k]]_vars

\* C5 as stated: a record of a batch that was fully applied but not committed
\* when its aggregator crashed is never counted again on replay.
C5_ReplayNeverCounted ==
    \A i \in Instances : ~(pc[i] = "count" /\ cur[i] \in hist.replay)

\* C5, amended: such a record is counted again on replay only if the dedup
\* check of the replay fails, if the record was first counted after a failed
\* dedup check, or if its day's dedup set has expired since.
C5_ReplaySkippedInWindow ==
    \A i \in Instances :
        (pc[i] = "count" /\ cur[i] \in hist.replay) =>
            \/ chk[i] = "err"
            \/ cur[i] \in hist.degraded
            \/ cur[i] \in hist.stale

\* C5 witness: a record of a fully applied, uncommitted batch is replayed
\* after the crash and skipped as a duplicate
C5_Witness ==
    \E i \in Instances :
        /\ pc[i] = "skip" /\ chk[i] = "dup"
        /\ cur[i] \in hist.replay \ (hist.degraded \cup hist.stale)
        /\ store[KeyOfMsg(cur[i])] > 0

AllConsumed ==
    \A p \in Partitions :
        Len(log[p]) > 0 =>
            /\ owner[p] \in Instances
            /\ pos[owner[p]][p] = Len(log[p])
            /\ pc[owner[p]] = "fetch"

\* C7: in a run without crash, store failure, dedup error, false positive
\* (nor rebalance or dedup expiry), once every record is consumed and a flush
\* has returned leaving the accumulator empty, every persisted count equals
\* the number of distinct event ids delivered for its key.
C7_ExactWhenQuiet ==
    ( /\ faults.crash = 0 /\ faults.storeFail = 0 /\ faults.dedupErr = 0
      /\ faults.falsePos = 0 /\ faults.rebalance = 0 /\ faults.expire = 0
      /\ AllConsumed
      /\ \A p \in Partitions :
            Len(log[p]) > 0 =>
                owner[p] \in hist.flushed /\ counts[owner[p]] = EmptyCounts )
    => \A k \in Keys : store[k] = Cardinality(DeliveredIds(k))

\* C8: no step decreases a persisted count, and every delta a flush is
\* about to apply is strictly positive.
C8_Monotone ==
    /\ [][\A k \in Keys : store'[k] >= store[k]]_vars
    /\ [](\A i \in Instances, g \in Flushers :
             \A k \in fremain[i][g] : fcounts[i][g][k] > 0)

\* C8 witness: a count that two flushes have raised
C8_Witness ==
    \E k \in Keys : store[k] >= 2 /\ Cardinality(hist.applied) >= 2

\* the consume loop of instance i leaves BF.ADD in this step
CheckReturns(i) ==
    pc[i] = "bfadd" /\ pc'[i] # "bfadd" /\ status'[i] = "up"

\* C9: a failed dedup check is logged and leads to counting the event; an
\* event is skipped only on the answer "already present"; and the counting
\* branch raises the key's delta by one.
C9_DegradedCounts ==
    [][\A i \in Instances :
         /\ CheckReturns(i) =>
               /\ chk'[i] = "err" =>
                     pc'[i] = "count" /\ logs'.bloomFail = logs.bloomFail + 1
               /\ pc'[i] = "skip" => chk'[i] = "dup"
         /\ (pc[i] = "count" /\ pc'[i] = "fetch" /\ status'[i] = "up") =>
               LET k == KeyOfMsg(cur[i]) IN
               /\ k \in DOMAIN counts'[i]
               /\ counts'[i][k] =
                    (IF k \in DOMAIN counts[i] THEN counts[i][k] ELSE 0) + 1]_vars

\* C9 witness: an event counted after a failed dedup check has reached the
\* counter table
C9_Witness ==
    /\ logs.bloomFail > 0
    /\ hist.degraded \cap hist.applied # {}

\* C10: an aggregator that has exited after a shutdown signal holds no
\* increment in memory: its accumulator is empty and none of its flushes was
\* cut short.
C10_ShutdownFlushed ==
    \A i \in Instances :
        status[i] = "stopped" =>
            /\ counts[i] = EmptyCounts
            /\ \A g \in Flushers : fpc[i][g] = "idle"

\* C11: a row is claimed by at most one scheduler per cycle: between two
\* returns to IDLE no two poll() calls have it in their claimed sets.
C11_OneWinner ==
    \A r \in Rows : Cardinality(winners[r]) <= 1

\* C11 witness: both schedulers selected the same due row, one claimed it and
\* the other has tried and was refused
C11_Witness ==
    \E r \in Rows :
        /\ Cardinality(winners[r]) = 1
        /\ rowStatus[r] = "ENQUEUED"
        /\ \A s \in Schedulers : r \notin cand[s]
        /\ \E s \in Schedulers : s \notin winners[r] /\ cand[s] # {}

\* C12: the status of a row changes only along IDLE -> ENQUEUED,
\* ENQUEUED -> RUNNING, RUNNING -> IDLE and from a stale ENQUEUED or RUNNING
\* row to IDLE; a claimed row becomes IDLE only by completion (from RUNNING)
\* or by reconciliation (when stale).
C12_StatusEdges ==
    [][\A r \in Rows :
         rowStatus'[r] # rowStatus[r] =>
            \/ rowStatus[r] = "IDLE" /\ rowStatus'[r] = "ENQUEUED"
            \/ rowStatus[r] = "ENQUEUED" /\ rowStatus'[r] = "RUNNING"
            \/ rowStatus[r] = "RUNNING" /\ rowStatus'[r] = "IDLE"
            \/ Stale(r) /\ rowStatus'[r] = "IDLE"]_vars

\* C12 witness: a row went round the whole cycle and another was reclaimed
C12_Witness ==
    \E r \in Rows :
        /\ rowStatus[r] = "IDLE" /\ rowWait[r] = PeriodTicks
        /\ reclaimed # {} /\ r \notin reclaimed

Pending == {t \in TaskIds : task[t].st \in {"pending", "retry", "scheduled"}}

Active == {t \in TaskIds : task[t].st = "active"}

\* C14: the pair keeps being re-ingested: whenever no crawl of the pair is
\* running, one is still to come.
C14_CrawlToCome ==
    Active = {} => Pending # {}

\* C15: no two crawls are scheduled for the same pair.
C15_OneEntry ==
    Cardinality({t \in TaskIds : task[t].st = "scheduled"}) <= 1

\* the listens (user, song, timestamp) published so far that count for key k
PublishedListens(k) ==
    {Event(id) : id \in {e \in CrawlIds :
                          /\ \E n \in 1..Len(log[PartitionOf(CrawlUser)]) :
                                log[PartitionOf(CrawlUser)][n] = e
                          /\ KeyOfId(e) = k}}

\* C16: executing a crawl job again raises no persisted count: no count
\* exceeds the number of distinct listens published for its key.
C16_ReexecutionNotCounted ==
    \A k \in Keys : store[k] <= Cardinality(PublishedListens(k))

\* the stored count of (user, day, song); no record counts as zero
CountAt(userID, day, sg) ==
    LET key == AggregateKey(userID, day, sg)
    IN  IF key \in Keys THEN store[key] ELSE 0

\* the sum of a song's stored counts over the n UTC days ending today
RECURSIVE WindowSum(_, _, _, _)
WindowSum(userID, sg, today, n) ==
    IF n = 0 THEN 0
    ELSE CountAt(userID, today - (n - 1), sg) + WindowSum(userID, sg, today, n - 1)

AllSongs == {key.song : key \in Keys}

\* C17: the results of a cache-miss computation for (U, N, K) are the songs
\* of U with their sums over the N UTC days ending today, in descending
\* order of the sum, ranked from 1, cut to the first K: every listed count is
\* the song's sum, no song is listed twice, and no song left out has a
\* larger sum than a listed one.
C17_TopKOfWindow ==
    (resp.status = 200 /\ resp.xcache = "MISS") =>
        LET res == resp.body.results
            today == ApiNow \div DaySecs
            total(sg) == WindowSum(resp.body.user_id, sg, today, resp.body.days)
            withCount == {sg \in AllSongs : total(sg) > 0}
            listed == {res[n].song_id : n \in 1..Len(res)}
        IN  /\ Len(res) = IF Cardinality(withCount) > resp.body.k
                          THEN resp.body.k ELSE Cardinality(withCount)
            /\ Cardinality(listed) = Len(res)
            /\ listed \subseteq withCount
            /\ \A n \in 1..Len(res) :
                  /\ res[n].rank = n
                  /\ res[n].listen_count = total(res[n].song_id)
                  /\ n < Len(res) => res[n].listen_count >= res[n + 1].listen_count
                  /\ \A sg \in withCount \ listed : total(sg) <= res[n].listen_count

\* C17 witness: day D with a=5, b=3 and day D-1 with a=2, queried with
\* days=2, k=2, answered a:7 at rank 1 and b:3 at rank 2
C17_Witness ==
    /\ resp.status = 200 /\ resp.xcache = "MISS"
    /\ resp.body.days = 2 /\ resp.body.k = 2
    /\ CountAt(ApiUser, ApiNow \div DaySecs, "a") = 5
    /\ CountAt(ApiUser, ApiNow \div DaySecs, "b") = 3
    /\ CountAt(ApiUser, ApiNow \div DaySecs - 1, "a") = 2
    /\ CountAt(ApiUser, ApiNow \div DaySecs - 1, "b") = 0
    /\ resp.body.results =
          <<[song_id |-> "a", listen_count |-> 7, rank |-> 1],
            [song_id |-> "b", listen_count |-> 3, rank |-> 2]>>

\* ascending item id
ItemOrder == [sg \in ApiSongs |-> CASE sg = "a" -> 1 [] sg = "b" -> 2 [] OTHER -> 3]

\* C18: of two listed songs with equal sums the one with the smaller id is
\* ranked first.
C18_TieBreakById ==
    resp.status = 200 =>
        \A n \in 1..Len(resp.body.results), m \in 1..Len(resp.body.results) :
            (n < m /\ resp.body.results[n].listen_count
                        = resp.body.results[m].listen_count) =>
                ItemOrder[resp.body.results[n].song_id]
                    < ItemOrder[resp.body.results[m].song_id]

\* C19: a response served from the cache says cached: true.
C19_HitSaysCached ==
    (resp.status = 200 /\ resp.xcache = "HIT") => resp.body.cached = TRUE

\* the value sent for a parameter is not an integer within lo..hi
OutOfBounds(raw, lo, hi) ==
    raw # <<>> /\ (Atoi(raw).err \/ Atoi(raw).val < lo \/ Atoi(raw).val > hi)

\* C20: a well-formed GET whose days or k is sent and is not an integer
\* within its bounds is answered 400.
C20_InvalidRejected ==
    ( /\ req.method = "GET" /\ Len(req.parts) = 2
      /\ OutOfBounds(req.days, 1, 30) \/ OutOfBounds(req.k, 1, 100) )
    => resp.status = 400

\* C21: when the read of one of the N days fails, the answer is 500, it
\* carries no results (those summed from the days already read are not
\* returned) and the cache is left as it was.
C21_ReadFailureIs500 ==
    [][(nreq' = nreq + 1 /\ calls'.failed > 0) =>
          /\ resp'.status = 500
          /\ resp'.body.results = <<>>
          /\ cache' = cache]_vars

\* C21 witness: the read of the second day failed after today's rows had
\* been read; 500 and an empty cache
C21_Witness ==
    /\ calls.failed = 2 /\ calls.reads = 2
    /\ CountAt(ApiUser, ApiNow \div DaySecs, "a") > 0
    /\ resp.status = 500 /\ resp.body.results = <<>>
    /\ DOMAIN cache = {}

\* C22: a request whose cache lookup missed or failed, or whose cache write
\* failed, and whose counter reads all succeeded, is answered 200 with the
\* results computed from the N days of the counter table.
C22_CacheFailureFallsBack ==
    ((calls.get \in {"miss", "err"} \/ calls.set = "err") /\ calls.failed = 0) =>
        /\ resp.status = 200
        /\ calls.reads = resp.body.days
        /\ resp.body.results
              \in computeTopK(req.parts[1], resp.body.days, resp.body.k)

\* C22 witness: the lookup failed although the entry was there, the write
\* failed too, and the request was answered with computed results
C22_Witness ==
    /\ calls.get = "err" /\ calls.set = "err" /\ calls.failed = 0
    /\ resp.status = 200 /\ resp.xcache = "MISS"
    /\ Len(resp.body.results) > 0
    /\ <<req.parts[1], resp.body.days, resp.body.k>> \in DOMAIN cache

\* the cache key (user, N, K) of the request answered by the step
AnsweredKey == <<req'.parts[1], resp'.body.days, resp'.body.k>>

\* C23: an existing cache entry is changed or removed only by its expiry or
\* by a request for the same (user, N, K) that took the computation path; a
\* step that changes the counter table leaves the cache as it is; a hit
\* returns the stored response and leaves the cache as it is.
C23_CacheFrame ==
    [][ /\ \A c \in DOMAIN cache :
              (c \notin DOMAIN cache' \/ cache'[c] # cache[c]) =>
                 \/ /\ nreq' = nreq
                    /\ cache' = [x \in DOMAIN cache \ {c} |-> cache[x]]
                 \/ /\ nreq' = nreq + 1
                    /\ resp'.status = 200 /\ resp'.xcache = "MISS"
                    /\ c = AnsweredKey
        /\ store' # store => cache' = cache
        /\ (nreq' = nreq + 1 /\ calls'.get = "hit") =>
              /\ cache' = cache
              /\ resp'.xcache = "HIT"
              /\ AnsweredKey \in DOMAIN cache
              /\ resp'.body = cache[AnsweredKey] ]_vars

\* C23 witness: a hit answered with the stored response after the counts of
\* its window have changed
C23_Witness ==
    /\ calls.get = "hit" /\ resp.xcache = "HIT"
    /\ resp.body.results = <<>>
    /\ computeTopK(req.parts[1], resp.body.days, resp.body.k) # {<<>>}

\* C24: a GET of /users//topk (empty user_id) is answered 400 and neither
\* the cache nor the counter table is read for it.
C24_EmptyUserRejected ==
    (req.method = "GET" /\ req.parts = <<"", "topk">>) =>
        /\ resp.status = 400
        /\ calls.get = "none" /\ calls.reads = 0

\* the records counted for key k
CountedFor(k) == {r \in hist.counted \cup hist.degraded : KeyOfMsg(r) = k}

\* what instance i holds of key k: its live accumulator and the deltas of
\* its drained batches that are not yet applied
HeldBy(i, k) ==
    (IF k \in DOMAIN counts[i] THEN counts[i][k] ELSE 0)
    + (IF k \in fremain[i]["tick"] THEN fcounts[i]["tick"][k] ELSE 0)
    + (IF k \in fremain[i]["shut"] THEN fcounts[i]["shut"][k] ELSE 0)

\* C25: while the consume loop, the periodic flush and the shutdown flush
\* interleave, every counted event is in exactly one place: per key, the
\* deltas of the drained batches (those applied to the counter table and
\* those still to be applied) plus the live accumulator add up to the number
\* of events counted; and the batch a flush is applying is changed by no step.
C25_SwapAndDrain ==
    /\ [](\A k \in Keys :
            store[k] + HeldBy("i1", k) + HeldBy("i2", k) = Cardinality(CountedFor(k)))
    /\ [][\A i \in Instances, g \in Flushers :
            (fpc[i][g] = "write" /\ fpc'[i][g] # "idle") =>
                fcounts'[i][g] = fcounts[i][g]]_vars

\* C25 witness: an event is counted into the live accumulator while the
\* periodic flush is applying a drained batch of the same key and the
\* shutdown flush has drained another
C25_Witness ==
    \E k \in Keys :
        /\ fpc["i1"]["tick"] = "write" /\ k \in fremain["i1"]["tick"]
        /\ fpc["i1"]["shut"] = "write" /\ k \in fremain["i1"]["shut"]
        /\ Cardinality(CountedFor(k)) = 2

\* how often events of key k were counted by the (never crashing)
\* aggregators: what reached the counter table and what they still hold
TimesCounted(k) == store[k] + HeldBy("i1", k) + HeldBy("i2", k)

\* every delivered record has been processed to its end
AllProcessed ==
    /\ DeliveredIds(KeyOfId("e1")) # {}
    /\ AllConsumed
    /\ \A i \in Instances : pc[i] = "fetch"

\* C26 as stated: of the deliveries of one event id to two aggregators
\* exactly one is counted, and an event is counted only when BF.ADD reported
\* its id new.
C26_ExactlyOneCounts ==
    /\ TimesCounted(KeyOfId("e1")) <= 1
    /\ AllProcessed => TimesCounted(KeyOfId("e1")) = 1
    /\ \A i \in Instances : pc[i] = "count" => chk[i] = "new"

\* C26, amended: while the day's dedup set has not expired and no BF.ADD
\* failed, at most one delivery of an event id is counted, and exactly one
\* once all are processed unless the set reported a false positive; an event
\* is counted only after BF.ADD reported its id new or failed, and skipped
\* only after it reported the id present.
C26_OneCountInWindow ==
    /\ (faults.expire = 0 /\ faults.dedupErr = 0) =>
          /\ TimesCounted(KeyOfId("e1")) <= 1
          /\ (AllProcessed /\ faults.falsePos = 0) =>
                TimesCounted(KeyOfId("e1")) = 1
    /\ \A i \in Instances :
          /\ pc[i] = "count" => chk[i] \in {"new", "err"}
          /\ pc[i] = "skip" => chk[i] = "dup"

\* C26 witness: two aggregators are processing deliveries of the same event
\* id at the same time; BF.ADD answered new to one and present to the other
C26_Witness ==
    /\ faults.expire = 0 /\ faults.dedupErr = 0 /\ faults.falsePos = 0
    /\ pc["i1"] = "count" /\ chk["i1"] = "new"
    /\ pc["i2"] = "skip" /\ chk["i2"] = "dup"
    /\ RecordAt(cur["i1"]) = RecordAt(cur["i2"])
    /\ cur["i1"].p # cur["i2"].p

\* the UTC calendar day of a timestamp
UTCDay(ts) == ts \div DaySecs

\* C27: the dedup namespace an event is checked in and the day of the key it
\* is counted under are the UTC day of its own timestamp, whatever the local
\* zone of the aggregator; the counter it raises is one the query engine
\* reads for that UTC day.
C27_BucketIsUTCDay ==
    /\ \A i \in Instances :
          pc[i] \in {"reserve", "expire", "bfadd", "skip", "count"} =>
              /\ DayOfMsg(cur[i]) = UTCDay(Event(RecordAt(cur[i])).listenedAt)
              /\ KeyOfMsg(cur[i]).day = UTCDay(Event(RecordAt(cur[i])).listenedAt)
    /\ \A k \in Keys :
          store[k] > 0 =>
              \E e \in DeliveredIds(k) : k.day = UTCDay(Event(e).listenedAt)

RECURSIVE SumCounts(_)
SumCounts(m) ==
    IF DOMAIN m = {} THEN 0
    ELSE LET k == CHOOSE x \in DOMAIN m : TRUE
         IN  m[k] + SumCounts([x \in DOMAIN m \ {k} |-> m[x]])

\* the increments pending in the live accumulator of instance i
PendingDeltas(i) == SumCounts(counts[i])

\* C28: the pending deltas do not stay at or above the threshold: once they
\* have reached it, the consume loop of the instance takes no further step
\* before a flush has drained them.
C28_ThresholdTriggersFlush ==
    [][\A i \in Instances :
          PendingDeltas(i) >= FlushThreshold =>
              \/ pc'[i] = pc[i] /\ pos'[i] = pos[i]
              \/ counts'[i] = EmptyCounts]_vars

\* the consume loop of instance i fetches an unparseable record in this step
FetchesBad(i) ==
    /\ status[i] = "up" /\ pc[i] = "fetch" /\ owner' = owner
    /\ \E p \in Partitions :
          /\ owner[p] = i
          /\ pos'[i][p] = pos[i][p] + 1
          /\ pos[i][p] < Len(log[p])
          /\ log[p][pos[i][p] + 1] = Bad

\* C29: the step that fetches an unparseable record logs it and changes
\* neither the accumulator, the dedup store nor the counter table, and
\* leaves the consume loop at its next fetch, past the record.
C29_UnparseableSkipped ==
    [][\A i \in Instances :
          FetchesBad(i) =>
              /\ logs'.unmarshal = logs.unmarshal + 1
              /\ counts' = counts /\ lastMsg' = lastMsg /\ hasMsg' = hasMsg
              /\ bloom' = bloom /\ bloomExists' = bloomExists
              /\ bloomTTL' = bloomTTL
              /\ store' = store
              /\ pc'[i] = "fetch"]_vars

\* C29 witness: the event that follows an unparseable record in its
\* partition has been counted and has reached the counter table
C29_Witness ==
    /\ logs.unmarshal > 0
    /\ \E m \in hist.applied :
          /\ m.off > 0 /\ log[m.p][m.off] = Bad
          /\ store[KeyOfMsg(m)] = 1

\* C30: every day's filter that exists in the dedup store carries an expiry,
\* except while the aggregator that has just created it is about to set it.
C30_EveryFilterExpires ==
    \A day \in bloomExists \ bloomTTL :
        \E i \in Instances :
            status[i] = "up" /\ pc[i] = "expire" /\ DayOfMsg(cur[i]) = day

\* the songs of a user with a counter row in the n UTC days ending today
SongsInWindow(userID, today, n) ==
    {sg \in AllSongs :
        \E d \in (today - (n - 1))..today : CountAt(userID, d, sg) > 0}

C32_NextRunAfterPeriod ==
    \A t \in TaskIds :
        task[t].st = "done" =>
            /\ \E u \in TaskIds :
                  task[u].st = "scheduled" /\ task[u].since + DaySecs > Now
            /\ \A u \in TaskIds : task[u].st \notin {"pending", "retry", "active"}

\* C33: every event below the committed offset of its partition in the
\* raw-event-processor's group has been written to the raw store.
C33_NoCommitPastFailedWrite ==
    \A m \in Msgs :
        (m.off < rcommitted[m.p] /\ m.off < Len(log[m.p]) /\ RecordAt(m) # Bad)
            => m \in rstore

\* C34: the step that fetches an unparseable record leaves every record
\* whose increment is still only in the in-memory accumulator of that
\* instance at or above the committed offset of its partition.
C34_BadCommitKeepsPending ==
    [][\A i \in Instances :
          FetchesBad(i) =>
              \A r \in accRecs[i] : committed'[r.p] <= r.off]_vars

\* C35: when a flush of an instance commits while the other flush of that
\* instance is still applying its own drained batch, the committed offsets
\* cover no record of that other batch.
C35_NoCommitPastOtherBatch ==
    [][\A i \in Instances, g \in Flushers, h \in Flushers :
          (FlushReturns(i, g) /\ h # g /\ fpc[i][h] = "write") =>
              \A r \in frecs[i][h] : committed'[r.p] <= r.off]_vars

\* C36: no step lowers the committed offset of a partition.
C36_CommittedNeverDecreases ==
    [][\A p \in Partitions : committed'[p] >= committed[p]]_vars

\* C37: a flush that applied all its deltas and commits leaves every record
\* of its drained batch, on whatever partition, below the committed offset
\* of that record's partition.
C37_CommitsEveryPartition ==
    [][\A i \in Instances, g \in Flushers :
          (FlushReturns(i, g) /\ ffailed[i][g] = {} /\ committed' # committed) =>
              \A r \in frecs[i][g] : committed'[r.p] > r.off]_vars

\* C38: a flush that finds the accumulator empty after duplicates were
\* consumed does not return: it takes the last record consumed, has no
\* delta to write and goes on to commit that record; the commit it issues
\* is for that record; and while the ticker runs such a flush does happen
\* unless an event is counted first.
C38_DuplicatesStillCommit ==
    /\ [][\A i \in Instances, g \in Flushers :
            (fpc[i][g] = "idle" /\ fpc'[i][g] # "idle" /\ counts[i] = EmptyCounts) =>
                /\ fpc'[i][g] = "commit"
                /\ fhas'[i][g]
                /\ flast'[i][g] = lastMsg[i]]_vars
    /\ [][\A i \in Instances, g \in Flushers :
            (fpc[i][g] = "commit" /\ fpc'[i][g] = "idle" /\ fhas[i][g]
                /\ committed' # committed) =>
                committed' = CommitMessages(committed, flast[i][g])]_vars
    /\ \A i \in Instances :
          (status[i] = "up" /\ hasMsg[i] /\ counts[i] = EmptyCounts)
            ~> \/ counts[i] # EmptyCounts
               \/ \E g \in Flushers :
                     /\ fpc[i][g] = "commit" /\ fhas[i][g]
                     /\ fcounts[i][g] = EmptyCounts

\* C38 witness: the periodic flush is about to commit offset 1 of partition
\* 0, a repeated record, with no delta drained
C38_Witness ==
    /\ log[0] = <<"e1", "e1">>
    /\ fpc["i1"]["tick"] = "commit" /\ fhas["i1"]["tick"]
    /\ fcounts["i1"]["tick"] = EmptyCounts
    /\ flast["i1"]["tick"] = [p |-> 0, off |-> 1]
====
